---- MODULE Spec2Model ----
(***************************************************************************)
(* Hyper-V virtual storage device collector: path decoding, path           *)
(* resolution, virtual disk size probing and metric emission.              *)
(*                                                                         *)
(* A string is a sequence of tokens.  The tokens ":", "-", "\", "?", "_",   *)
(* ";" and "*" are the single characters the code inspects; every other    *)
(* token is an atom standing for a run of ordinary characters              *)
(* ("ClusterStorage", "disk") or for an extension (".vhdx").               *)
(***************************************************************************)
EXTENDS Integers, Sequences, FiniteSets, TLC

\* fs       the entries that exist on disk (cleaned paths)
\* env      the value of HYPERV_VHD_PATHS
\* native   the image files the native layer cannot open / cannot query
\* devices  the device instances the performance counters report
\* arg      the argument of the function under test
\* out      what the last call returned
\* calls    number of calls made so far
\* ch       the observations sent on the metric channel in the last cycle
\* handles  the native layer's counters of open, successful open, query
\*          and close calls
VARIABLES fs, env, native, devices, arg, out, calls, ch, handles

vars == <<fs, env, native, devices, arg, out, calls, ch, handles>>

(***************************************************************************)
(* strings                                                                 *)
(***************************************************************************)
Sep == "\\"

Empty == <<>>

\* single-character tokens: the only tokens a '?' of a glob pattern matches
SingleChars == {":", "-", Sep, "?", "_", ";", "*"}

\* atoms that contain the substring ".vhd"
VhdAtoms == {".vhd", ".vhdx", ".vhdset"}

\* strings.Contains(s, sub) for a token sequence sub
Contains(s, sub) ==
    \E i \in 1..(Len(s) - Len(sub) + 1) : SubSeq(s, i, i + Len(sub) - 1) = sub

\* strings.Contains(s, ".vhd")
ContainsVhd(s) == \E i \in 1..Len(s) : s[i] \in VhdAtoms

\* strings.Contains(s, ".vmgs")
ContainsVmgs(s) == \E i \in 1..Len(s) : s[i] = ".vmgs"

\* strings.HasPrefix
HasPrefix(s, pre) == Len(s) >= Len(pre) /\ SubSeq(s, 1, Len(pre)) = pre

\* a TrimPrefix that leaves the prefix in place
KeepPrefix(s, pre) == s

\* strings.TrimPrefix
TrimPrefix(s, pre) == IF HasPrefix(s, pre) THEN SubSeq(s, Len(pre) + 1, Len(s)) ELSE s

\* strings.ReplaceAll for one-character old and new
ReplaceAll(s, old, new) == [i \in 1..Len(s) |-> IF s[i] = old THEN new ELSE s[i]]

\* index of the first occurrence of token c in s at or after position i, 0 if none
RECURSIVE IndexFrom(_, _, _)
IndexFrom(s, c, i) ==
    IF i > Len(s) THEN 0
    ELSE IF s[i] = c THEN i
    ELSE IndexFrom(s, c, i + 1)

\* f applied to the value of x, which is computed once
With(x, f(_)) == CHOOSE r \in {f(v) : v \in {x}} : TRUE

\* strings.Split(s, c): always at least one element, empty elements kept
RECURSIVE Split(_, _)
Split(s, c) ==
    LET from(t, k) == IF k = 0 THEN <<t>>
                      ELSE <<SubSeq(t, 1, k - 1)>> \o Split(SubSeq(t, k + 1, Len(t)), c)
    IN With(s, LAMBDA t : With(IndexFrom(t, c, 1), LAMBDA k : from(t, k)))

\* strings.Join(elems, c)
RECURSIVE JoinWith(_, _)
JoinWith(elems, c) ==
    LET from(e) == IF Len(e) = 0 THEN Empty
                   ELSE IF Len(e) = 1 THEN e[1]
                   ELSE e[1] \o <<c>> \o JoinWith(Tail(e), c)
    IN With(elems, LAMBDA e : from(e))

(***************************************************************************)
(* path/filepath                                                           *)
(***************************************************************************)
\* length of the volume name: 2 for a drive-letter path, else 0
VolumeLen(p) == IF Len(p) >= 2 /\ p[2] = ":" THEN 2 ELSE 0

\* the ".." elimination of filepath.Clean over the components of a path
RECURSIVE DotDot(_, _, _)
DotDot(comps, acc, rooted) ==
    LET from(cs, a) ==
            IF Len(cs) = 0 THEN a
            ELSE IF cs[1] = <<"..">> THEN
                IF Len(a) > 0 /\ a[Len(a)] # <<"..">>
                THEN DotDot(Tail(cs), SubSeq(a, 1, Len(a) - 1), rooted)
                ELSE IF rooted THEN DotDot(Tail(cs), a, rooted)
                ELSE DotDot(Tail(cs), Append(a, cs[1]), rooted)
            ELSE DotDot(Tail(cs), Append(a, cs[1]), rooted)
    IN With(comps, LAMBDA cs : With(acc, LAMBDA a : from(cs, a)))

\* p is already clean: no separator is doubled or trailing (the root's
\* excepted) and no component is "." or ".."
IsClean(p) ==
    LET v == VolumeLen(p) IN
    /\ Len(p) > v
    /\ \A i \in (v + 1)..Len(p) :
          /\ p[i] \notin {".", ".."}
          /\ p[i] = Sep => /\ i < Len(p) \/ i = v + 1
                           /\ i < Len(p) => p[i + 1] # Sep

\* filepath.Clean: one separator between components, no empty or "."
\* component, ".." resolved, no trailing separator except after the root
Clean(path) ==
    LET clean(p) ==
            IF IsClean(p) THEN p
            ELSE
            LET v      == VolumeLen(p)
                vol    == SubSeq(p, 1, v)
                rest   == SubSeq(p, v + 1, Len(p))
                rooted == Len(p) > v /\ p[v + 1] = Sep
                comps  == SelectSeq(Split(rest, Sep), LAMBDA c : c # Empty /\ c # <<".">>)
                result(body) == IF body = Empty /\ ~rooted THEN vol \o <<".">>
                                ELSE vol \o (IF rooted THEN <<Sep>> ELSE Empty) \o body
            IN With(JoinWith(DotDot(comps, <<>>, rooted), Sep), LAMBDA body : result(body))
    IN With(path, LAMBDA p : clean(p))

\* filepath.Join(a, b): empty elements are ignored, the result is cleaned
Join(a, b) ==
    IF a = Empty /\ b = Empty THEN Empty
    ELSE Clean(IF a = Empty THEN b
               ELSE IF b = Empty THEN a
               ELSE a \o <<Sep>> \o b)

\* filepath.IsAbs on Windows: a drive letter, a colon and a separator
IsAbs(p) == Len(p) >= 3 /\ p[2] = ":" /\ p[3] = Sep

\* directory part of a cleaned path (the path without its last component)
Dir(p) ==
    LET v == VolumeLen(p)
        dirOf(comps) ==
            IF Len(comps) <= 1 THEN SubSeq(p, 1, v)
            ELSE IF Len(comps) = 2 /\ comps[1] = Empty THEN SubSeq(p, 1, v) \o <<Sep>>
            ELSE SubSeq(p, 1, v) \o JoinWith(SubSeq(comps, 1, Len(comps) - 1), Sep)
    IN dirOf(Split(SubSeq(p, v + 1, Len(p)), Sep))

\* last component of a cleaned path
Base(p) ==
    LET last(comps) == comps[Len(comps)]
    IN last(Split(SubSeq(p, VolumeLen(p) + 1, Len(p)), Sep))

(***************************************************************************)
(* the disk                                                                *)
(***************************************************************************)
CRoot == <<"C", ":", Sep>>
DRoot == <<"D", ":", Sep>>

\* the drive roots, which always exist
Roots == {CRoot, DRoot}

dCS   == CRoot \o <<"ClusterStorage">>
dCSV  == dCS \o <<Sep, "HAMC", "-", "FTT2", "-", "CSV01">>
fCSV  == dCSV \o <<Sep, "disk", ".vhdx">>
dHV   == dCS \o <<Sep, "Hyper", "-", "V">>
dHyper == dCS \o <<Sep, "Hyper">>
fHV   == dHV \o <<Sep, "disk", ".vhdx">>
dVM   == dCS \o <<Sep, "VM01">>
fVM   == dVM \o <<Sep, "disk", ".vhdx">>
fGuid == dVM \o <<Sep, "B8DA", "-", "40AB", ".vmgs">>
fCS   == dCS \o <<Sep, "disk", ".vhdx">>
dVMs  == DRoot \o <<"VMs">>
fVMs  == dVMs \o <<Sep, "disk", ".vhd">>
fVMsX == dVMs \o <<Sep, "disk", ".vhdx">>
fCwd  == <<"disk", ".vhdx">>

\* the directories and the files a disk may hold
DirEntries  == {dCS, dCSV, dHV, dHyper, dVM, dVMs}
FileEntries == {fCSV, fHV, fVM, fGuid, fCS, fVMs, fVMsX, fCwd}
Entries     == DirEntries \cup FileEntries

\* the directory and the name of every entry a disk may hold
EntryDir  == [e \in Entries |-> Dir(e)]
EntryBase == [e \in Entries |-> Base(e)]

\* a disk holds an entry only inside an existing directory
ParentClosed(f) ==
    \A e \in f : LET d == EntryDir[e] IN d = Empty \/ d \in Roots \/ d \in f

FsStates == {f \in SUBSET Entries : ParentClosed(f)}

\* os.Stat(path) succeeds
fileExistsIn(f, path) ==
    path # Empty /\ Clean(path) \in (f \cup Roots)

\* os.Stat(path) succeeds and FileInfo.IsDir()
isDirIn(f, path) ==
    path # Empty /\ Clean(path) \in ((f \cap DirEntries) \cup Roots)

(***************************************************************************)
(* decodeVirtualDiskPath                                                   *)
(***************************************************************************)
\* a result of the decoder: the path returned and the number of filesystem
\* probes (os.Stat calls) made to find it
Decoded(path, probes) == [path |-> path, probes |-> probes]

\* the loop of tryPathCombinations from index i on; parts is 1-based here
RECURSIVE tryLoop(_, _, _, _, _, _)
tryLoop(f, parts, i, basePath, currentPath, probes) ==
    IF i > Len(parts) THEN Decoded(Empty, probes)
    ELSE IF parts[i] = Empty THEN tryLoop(f, parts, i + 1, basePath, currentPath, probes)
    ELSE
      LET last      == i = Len(parts) /\ (ContainsVhd(parts[i]) \/ ContainsVmgs(parts[i]))
          tryFinal  == last /\ currentPath # Empty
          \* probes made by the final-segment block when it does not return
          p1        == probes + (IF tryFinal THEN 1 ELSE 0) + (IF last THEN 1 ELSE 0)
          body(testPath, finalPath, mergePath) ==
              IF tryFinal /\ fileExistsIn(f, finalPath) THEN Decoded(finalPath, probes + 1)
              ELSE IF last /\ fileExistsIn(f, testPath) THEN Decoded(testPath, p1)
              ELSE IF isDirIn(f, testPath)
                   THEN tryLoop(f, parts, i + 1, testPath, testPath, p1 + 1)
              ELSE IF i < Len(parts)
                   THEN IF isDirIn(f, mergePath)
                        THEN tryLoop(f, parts, i + 2, mergePath, mergePath, p1 + 2)
                        ELSE tryLoop(f, parts, i + 1, basePath, currentPath, p1 + 2)
              ELSE tryLoop(f, parts, i + 1, basePath, currentPath, p1 + 1)
      IN body(Join(basePath, parts[i]),
              Join(currentPath, parts[i]),
              Join(basePath, parts[i] \o <<"-">> \o parts[i + 1]))

tryPathCombinations(f, basePath, parts) ==
    IF Len(parts) = 0 THEN Decoded(Empty, 0)
    ELSE tryLoop(f, parts, 1, basePath, Empty, 0)

UncMarker == <<"-", "-", "?", "-">>

\* a name carries an encoding marker: ":-" somewhere, or the "--?-" prefix
hasMarker(instanceName) ==
    Contains(instanceName, <<":", "-">>) \/ HasPrefix(instanceName, UncMarker)

\* decodeVirtualDiskPath from the removal of the prefix on
decodeMarked(f, instanceName) ==
    LET path == TrimPrefix(instanceName, UncMarker) IN
    IF Len(path) < 3 \/ path[2] # ":" \/ path[3] # "-" THEN Decoded(Empty, 0)
    ELSE
      LET driveLetter   == <<path[1]>>
          remainingPath == SubSeq(path, 4, Len(path))
          simplePath    == driveLetter \o <<":", Sep>> \o ReplaceAll(remainingPath, "-", Sep)
          \* the probe of the simple path comes before the tried combinations
          afterSimple(tried) == Decoded(tried.path, tried.probes + 1)
      IN IF fileExistsIn(f, simplePath) THEN Decoded(simplePath, 1)
         ELSE afterSimple(tryPathCombinations(f, driveLetter \o <<":", Sep>>,
                                              Split(remainingPath, "-")))

\* a decoder that takes a name without a marker for a file name
decodeUnmarkedAsFile(f, instanceName) ==
    IF ~hasMarker(instanceName)
    THEN IF fileExistsIn(f, instanceName) THEN Decoded(instanceName, 1)
         ELSE Decoded(Empty, 1)
    ELSE decodeMarked(f, instanceName)

decodeVirtualDiskPath(f, instanceName) ==
    IF instanceName = Empty THEN Decoded(Empty, 0)
    ELSE IF ~hasMarker(instanceName) THEN Decoded(Empty, 0)
    ELSE decodeMarked(f, instanceName)

(***************************************************************************)
(* filepath.Glob                                                           *)
(***************************************************************************)
\* the tokens in byte order: os.ReadDir and filepath.Glob list names sorted
TokenOrder ==
    << "-", ".vhd", ".vhdset", ".vhdx", ".vmgs", "40AB", ":", ";", "?",
       "B8DA", "C", "CSV01", "ClusterStorage", "D", "E", "FTT2", "HAMC",
       "Hyper", "V", "VM01", "VMs", "X", "_", "disk" >>

Rank == [t \in {TokenOrder[i] : i \in 1..Len(TokenOrder)} |->
            CHOOSE i \in 1..Len(TokenOrder) : TokenOrder[i] = t]

\* a sorts before or with b
RECURSIVE NameLeq(_, _)
NameLeq(a, b) ==
    IF a = Empty THEN TRUE
    ELSE IF b = Empty THEN FALSE
    ELSE IF a[1] = b[1] THEN NameLeq(Tail(a), Tail(b))
    ELSE Rank[a[1]] < Rank[b[1]]

\* the components of a path below its volume
Components(p) ==
    SelectSeq(Split(SubSeq(p, VolumeLen(p) + 1, Len(p)), Sep), LAMBDA c : c # Empty)

\* path a is listed before or with path b: component by component
RECURSIVE CompsLeq(_, _)
CompsLeq(a, b) ==
    IF a = <<>> THEN TRUE
    ELSE IF b = <<>> THEN FALSE
    ELSE IF a[1] = b[1] THEN CompsLeq(Tail(a), Tail(b))
    ELSE NameLeq(a[1], b[1])

RECURSIVE SortAll(_)
SortAll(S) ==
    IF S = {} THEN <<>>
    ELSE LET m == CHOOSE x \in S : \A y \in S : CompsLeq(Components(x), Components(y))
         IN <<m>> \o SortAll(S \ {m})

\* every entry a disk may hold, in the order Glob lists the entries below
\* one directory: each directory listing is sorted by name, and the matches
\* of an outer directory come before those of the next
EntryOrder == SortAll(Entries)

\* filepath.Match(pattern, name) for a pattern of literals and '?'
MatchName(pattern, name) ==
    /\ Len(pattern) = Len(name)
    /\ \A i \in 1..Len(name) :
          \/ pattern[i] = name[i]
          \/ pattern[i] = "?" /\ name[i] \in SingleChars \ {Sep}

\* the directory an entry lies in one level and two levels further up, and
\* NoDir where the path has no such level
NoDir == <<"<none>">>
Up(d) == IF d = Empty \/ d \in Roots \/ d = NoDir THEN NoDir ELSE Dir(d)
EntryDir2 == [e \in Entries |-> Up(EntryDir[e])]
EntryDir3 == [e \in Entries |-> Up(EntryDir2[e])]

\* does the last element of a glob pattern match the name of entry e
matches(pattern, e) == pattern = <<"*">> \/ MatchName(pattern, EntryBase[e])

\* the directory Glob starts from for a pattern below basePath; Empty is
\* the working directory
GlobRoot(basePath) == IF basePath = Empty THEN Empty ELSE Clean(basePath)

\* filepath.Glob(filepath.Join(basePath, "*", name))
globOneLevel(f, basePath, name) ==
    LET root == GlobRoot(basePath) IN
    SelectSeq(EntryOrder,
              LAMBDA e : e \in f /\ EntryDir2[e] = root /\ matches(name, e))

\* filepath.Glob(filepath.Join(basePath, "*", "*", name))
globTwoLevels(f, basePath, name) ==
    LET root == GlobRoot(basePath) IN
    SelectSeq(EntryOrder,
              LAMBDA e : e \in f /\ EntryDir3[e] = root /\ matches(name, e))

(***************************************************************************)
(* resolveVirtualDiskPath                                                  *)
(***************************************************************************)
HyperV == <<"Hyper", "-", "V">>
VirtualHardDisks == <<"Virtual Hard Disks">>

commonPaths ==
    << dCS,
       CRoot \o <<"ProgramData", Sep, "Microsoft", Sep, "Windows", Sep>> \o HyperV,
       CRoot \o <<"ProgramData", Sep, "Microsoft", Sep, "Windows", Sep>> \o HyperV
             \o <<Sep>> \o VirtualHardDisks,
       CRoot \o <<"Users", Sep, "Public", Sep, "Documents", Sep>> \o HyperV
             \o <<Sep>> \o VirtualHardDisks,
       DRoot \o HyperV,
       DRoot \o HyperV \o <<Sep>> \o VirtualHardDisks,
       <<"E", ":", Sep>> \o HyperV,
       <<"E", ":", Sep>> \o HyperV \o <<Sep>> \o VirtualHardDisks >>

\* an override list that is honoured by the first call only
customPathsFirstCallOnly(e) ==
    IF e = Empty \/ calls > 0 THEN <<>> ELSE Split(e, ";")

\* the directories of HYPERV_VHD_PATHS, in order
customPathsList(e) == IF e = Empty THEN <<>> ELSE Split(e, ";")

\* base directories with the override list put last
searchPathsAppended(e) == commonPaths \o customPathsList(e)

\* the base directories searched, in order
searchPaths(e) == customPathsList(e) \o commonPaths

\* candidate file names with the extensions tried in the order .vhd, .vhdx,
\* .vhdset
possibleNamesVhdFirst(instanceName) ==
    LET parts == Split(instanceName, "_")
        lastPart == parts[Len(parts)]
    IN (IF ContainsVhd(instanceName) THEN <<instanceName>> ELSE <<>>)
       \o << instanceName \o <<".vhd">>, instanceName \o <<".vhdx">>,
              instanceName \o <<".vhdset">> >>
       \o (IF Len(parts) > 1
            THEN << lastPart \o <<".vhd">>, lastPart \o <<".vhdx">>,
                    lastPart \o <<".vhdset">> >>
            ELSE <<>>)

\* the candidate file names, in order
possibleNames(instanceName) ==
    LET raw   == << instanceName \o <<".vhdx">>,
                    instanceName \o <<".vhd">>,
                    instanceName \o <<".vhdset">> >>
        parts == Split(instanceName, "_")
        lastPart == parts[Len(parts)]
        tail  == IF Len(parts) > 1
                 THEN << lastPart \o <<".vhdx">>,
                         lastPart \o <<".vhd">>,
                         lastPart \o <<".vhdset">> >>
                 ELSE <<>>
        asIs  == IF ContainsVhd(instanceName) THEN <<instanceName>> ELSE <<>>
    IN asIs \o raw \o tail

\* a result of the resolver: the path, the probes made, and how it was found
Resolved(path, probes, how) == [path |-> path, probes |-> probes, how |-> how]

\* a pair probe that returns the direct join without looking at the disk
probePairUnchecked(f, basePath, name) == Resolved(Join(basePath, name), 1, "direct")

\* what the three probes of one (base directory, candidate name) pair find
probePair(f, basePath, name) ==
    LET direct(fullPath, onward) ==
            IF fileExistsIn(f, fullPath) THEN Resolved(fullPath, 1, "direct") ELSE onward
        oneLevel(one, onward) ==
            IF Len(one) > 0 THEN Resolved(one[1], 2, "one") ELSE onward
        twoLevels(two) ==
            IF Len(two) > 0 THEN Resolved(two[1], 3, "two") ELSE Resolved(Empty, 3, "none")
    IN direct(Join(basePath, name),
              oneLevel(globOneLevel(f, basePath, name),
                       twoLevels(globTwoLevels(f, basePath, name))))

\* the nested search loops: the pairs are numbered in iteration order, base
\* directories outermost; the first pair with a match returns
searchFrom(f, bases, names, probes) ==
    LET nn     == Len(names)
        found(k) == probePair(f, bases[((k - 1) \div nn) + 1], names[((k - 1) % nn) + 1])
        returned(first, hit) ==
            Resolved(hit.path, probes + 3 * (first - 1) + hit.probes, hit.how)
        atFirst(first) == returned(first, found(first))
        among(hits) ==
            IF hits = {} THEN Resolved(Empty, probes + 3 * Len(bases) * nn, "none")
            ELSE atFirst(CHOOSE k \in hits : \A j \in hits : k <= j)
    IN among({k \in 1..(Len(bases) * nn) : found(k).path # Empty})

resolveVirtualDiskPath(f, e, instanceName) ==
    LET afterDecode(d) ==
            IF d.path # Empty /\ fileExistsIn(f, d.path)
            THEN Resolved(d.path, d.probes + 1, "decoded")
            ELSE searchFrom(f, searchPaths(e), possibleNames(instanceName),
                            d.probes + (IF d.path # Empty THEN 1 ELSE 0))
    IN afterDecode(decodeVirtualDiskPath(f, instanceName))

(***************************************************************************)
(* virtdisk.GetVirtualDiskSize                                             *)
(***************************************************************************)
\* atoms that begin with a dot
DotAtoms == {".vhd", ".vhdx", ".vhdset", ".vmgs", ".iso", ".bak"}

\* filepath.Ext: the suffix that begins at the last dot of the last
\* component, empty if that component has no dot
RECURSIVE extFrom(_, _)
extFrom(path, i) ==
    IF i < 1 \/ path[i] = Sep THEN Empty
    ELSE IF path[i] \in DotAtoms THEN SubSeq(path, i, Len(path))
    ELSE extFrom(path, i - 1)

Ext(path) == extFrom(path, Len(path))

\* the DeviceID put in the VIRTUAL_STORAGE_TYPE handed to the native open
\* a classification by the first extension of the file name
storageTypeFirstExt(path) ==
    LET name  == Base(path)
        dots  == {i \in 1..Len(name) : name[i] \in DotAtoms}
        first == IF dots = {} THEN Empty
                 ELSE <<name[CHOOSE i \in dots : \A j \in dots : i <= j]>>
    IN IF first = <<".vhd">> THEN "VHD"
       ELSE IF first = <<".vhdx">> THEN "VHDX"
       ELSE IF first = <<".vhdset">> THEN "VHDSET"
       ELSE IF first = <<".iso">> THEN "ISO"
       ELSE "UNKNOWN"

storageType(path) ==
    LET ext == Ext(path) IN
    IF ext = <<".vhd">> THEN "VHD"
    ELSE IF ext = <<".vhdx">> THEN "VHDX"
    ELSE IF ext = <<".vhdset">> THEN "VHDSET"
    ELSE IF ext = <<".iso">> THEN "ISO"
    ELSE "UNKNOWN"

\* windows.UTF16PtrFromString fails on a string that holds a NUL
hasNul(path) == \E i \in 1..Len(path) : path[i] = "NUL"

\* what the image files report as virtual and physical size
imageSize(path) ==
    IF Clean(path) = fCS THEN [virtual |-> 0, physical |-> 0]
    ELSE [virtual |-> 64, physical |-> 16]

\* the native OpenVirtualDisk succeeds: the path names a file on disk that
\* the native layer can open
openSucceeds(f, nat, path) ==
    /\ path # Empty
    /\ Clean(path) \in f \cap FileEntries
    /\ Clean(path) \notin nat.noOpen

\* the native GetVirtualDiskInformation succeeds on an open image
querySucceeds(nat, path) == Clean(path) \notin nat.noQuery

\* a result of GetVirtualDiskSize: the two sizes, the error ("" for nil) and
\* the native calls made, in order
SizeResult(v, p, err, ops) ==
    [virtualSize |-> v, physicalSize |-> p, err |-> err, ops |-> ops]

\* the native calls: an open with the storage type passed and its outcome,
\* a size query with its outcome, a close
OpenOp(path, ok) == [call |-> "open", type |-> storageType(path), ok |-> ok]
QueryOp(ok)      == [call |-> "query", ok |-> ok]
CloseOp          == [call |-> "close", ok |-> TRUE]

\* a GetVirtualDiskSize that closes the handle on the success path only
GetVirtualDiskSizeNoDefer(f, nat, path) ==
    IF hasNul(path) THEN SizeResult(0, 0, "utf16", <<>>)
    ELSE IF ~openSucceeds(f, nat, path)
         THEN SizeResult(0, 0, "open", <<OpenOp(path, FALSE)>>)
    ELSE IF ~querySucceeds(nat, path)
         THEN SizeResult(0, 0, "query", <<OpenOp(path, TRUE), QueryOp(FALSE)>>)
    ELSE SizeResult(imageSize(path).virtual, imageSize(path).physical, "",
                    <<OpenOp(path, TRUE), QueryOp(TRUE), CloseOp>>)

\* a GetVirtualDiskSize that releases the handle before it queries the size
GetVirtualDiskSizeCloseFirst(f, nat, path) ==
    IF hasNul(path) THEN SizeResult(0, 0, "utf16", <<>>)
    ELSE IF ~openSucceeds(f, nat, path)
         THEN SizeResult(0, 0, "open", <<OpenOp(path, FALSE)>>)
    ELSE IF ~querySucceeds(nat, path)
         THEN SizeResult(0, 0, "query", <<OpenOp(path, TRUE), CloseOp, QueryOp(FALSE)>>)
    ELSE SizeResult(imageSize(path).virtual, imageSize(path).physical, "",
                    <<OpenOp(path, TRUE), CloseOp, QueryOp(TRUE)>>)

GetVirtualDiskSize(f, nat, path) ==
    IF hasNul(path) THEN SizeResult(0, 0, "utf16", <<>>)
    ELSE IF ~openSucceeds(f, nat, path)
         THEN SizeResult(0, 0, "open", <<OpenOp(path, FALSE)>>)
    \* from here on the deferred CloseHandle runs on every return
    ELSE IF ~querySucceeds(nat, path)
         THEN SizeResult(0, 0, "query", <<OpenOp(path, TRUE), QueryOp(FALSE), CloseOp>>)
    ELSE SizeResult(imageSize(path).virtual, imageSize(path).physical, "",
                    <<OpenOp(path, TRUE), QueryOp(TRUE), CloseOp>>)

\* number of native calls of one kind in a sequence of native calls
countOps(ops, kind) == Cardinality({i \in 1..Len(ops) : ops[i].call = kind})

\* number of native open calls that returned a handle
countOpened(ops) ==
    Cardinality({i \in 1..Len(ops) : ops[i].call = "open" /\ ops[i].ok})

\* the native layer's counters after one call of GetVirtualDiskSize
handlesAfter(h, ops) ==
    [open   |-> h.open + countOps(ops, "open"),
     opened |-> h.opened + countOpened(ops),
     query  |-> h.query + countOps(ops, "query"),
     close  |-> h.close + countOps(ops, "close")]

(***************************************************************************)
(* collectVirtualStorageDevice                                             *)
(***************************************************************************)
\* the twelve performance counter metrics sent for every device
PerfMetrics ==
    << "error_count_total", "queue_length", "bytes_read", "operations_read_total",
       "bytes_written", "operations_written_total", "latency_seconds",
       "throughput_total", "normalized_throughput", "lower_queue_length",
       "lower_latency_seconds", "io_quota_replenishment_rate" >>

\* an observation of a performance counter: labelled with the device only
PerfMetric(i, name) ==
    [metric |-> PerfMetrics[i], device |-> name, path |-> <<"n/a">>, value |-> 0]

\* an observation of a size: labelled with the device and the path label
SizeMetric(metric, name, label, value) ==
    [metric |-> metric, device |-> name, path |-> label, value |-> value]

Unknown == <<"unknown">>

\* a loop body that moves on to the next device when the path is unresolved
collectDeviceSkipUnresolved(f, e, nat, name) ==
    LET perf == [i \in 1..Len(PerfMetrics) |-> PerfMetric(i, name)]
        send(diskPath, size) ==
            [sent |-> perf \o
                 << SizeMetric("size_bytes", name, diskPath,
                               IF size.err = "" THEN size.virtualSize ELSE -1),
                    SizeMetric("physical_size_bytes", name, diskPath,
                               IF size.err = "" THEN size.physicalSize ELSE -1) >>,
             ops  |-> size.ops]
        sizeOf(diskPath) ==
            IF diskPath = Empty THEN [sent |-> perf, ops |-> <<>>]
            ELSE send(diskPath, GetVirtualDiskSize(f, nat, diskPath))
    IN sizeOf(resolveVirtualDiskPath(f, e, name).path)

\* a loop body that sends the sizes the failed query returned
collectDeviceNoSentinel(f, e, nat, name) ==
    LET send(diskPath, resolvedPath, size) ==
            [sent |-> [i \in 1..Len(PerfMetrics) |-> PerfMetric(i, name)]
                 \o << SizeMetric("size_bytes", name, resolvedPath,
                                  IF diskPath # Empty THEN size.virtualSize ELSE -1),
                       SizeMetric("physical_size_bytes", name, resolvedPath,
                                  IF diskPath # Empty THEN size.physicalSize ELSE -1) >>,
             ops  |-> IF diskPath # Empty THEN size.ops ELSE <<>>]
        sizeOf(diskPath) ==
            send(diskPath, IF diskPath # Empty THEN diskPath ELSE Unknown,
                 GetVirtualDiskSize(f, nat, diskPath))
    IN sizeOf(resolveVirtualDiskPath(f, e, name).path)

\* a loop body that takes a queried size of zero for an unknown size
collectDeviceZeroAsUnknown(f, e, nat, name) ==
    LET send(diskPath, resolvedPath, size, queried) ==
            [sent |-> [i \in 1..Len(PerfMetrics) |-> PerfMetric(i, name)]
                 \o << SizeMetric("size_bytes", name, resolvedPath,
                                  IF queried /\ size.virtualSize > 0
                                  THEN size.virtualSize ELSE -1),
                       SizeMetric("physical_size_bytes", name, resolvedPath,
                                  IF queried /\ size.physicalSize > 0
                                  THEN size.physicalSize ELSE -1) >>,
             ops  |-> IF diskPath # Empty THEN size.ops ELSE <<>>]
        query(diskPath, size) ==
            send(diskPath, IF diskPath # Empty THEN diskPath ELSE Unknown,
                 size, diskPath # Empty /\ size.err = "")
        sizeOf(diskPath) == query(diskPath, GetVirtualDiskSize(f, nat, diskPath))
    IN sizeOf(resolveVirtualDiskPath(f, e, name).path)

\* a call of resolveVirtualDiskPath for a device, in the trace of calls
ResolveOp(name) == [call |-> "resolve", device |-> name, ok |-> TRUE]

\* a loop body that keeps the sizes it found for a device in an earlier
\* cycle and sends them again without resolving or querying
collectDeviceCached(f, e, nat, name) ==
    LET perf  == [i \in 1..Len(PerfMetrics) |-> PerfMetric(i, name)]
        known == {k \in 1..Len(ch) : /\ ch[k].device = name
                                      /\ ch[k].metric = "size_bytes"
                                      /\ ch[k].value # -1}
        first == CHOOSE k \in known : \A j \in known : k <= j
        send(diskPath, size, queried) ==
            [sent |-> perf
                 \o << SizeMetric("size_bytes", name,
                                  IF diskPath # Empty THEN diskPath ELSE Unknown,
                                  IF queried THEN size.virtualSize ELSE -1),
                       SizeMetric("physical_size_bytes", name,
                                  IF diskPath # Empty THEN diskPath ELSE Unknown,
                                  IF queried THEN size.physicalSize ELSE -1) >>,
             ops  |-> <<ResolveOp(name)>> \o (IF diskPath # Empty THEN size.ops ELSE <<>>)]
        query(diskPath, size) == send(diskPath, size, diskPath # Empty /\ size.err = "")
        sizeOf(diskPath) == query(diskPath, GetVirtualDiskSize(f, nat, diskPath))
    IN IF known # {}
       THEN [sent |-> perf \o <<ch[first], ch[first + 1]>>, ops |-> <<>>]
       ELSE sizeOf(resolveVirtualDiskPath(f, e, name).path)

\* the body of the loop for one device: what it sends on the channel and the
\* native calls it makes
collectDevice(f, e, nat, name) ==
    LET \* the sends at the end of the loop body
        send(diskPath, resolvedPath, size, queried) ==
            [sent |-> [i \in 1..Len(PerfMetrics) |-> PerfMetric(i, name)]
                 \o << SizeMetric("size_bytes", name, resolvedPath,
                                  IF queried THEN size.virtualSize ELSE -1),
                       SizeMetric("physical_size_bytes", name, resolvedPath,
                                  IF queried THEN size.physicalSize ELSE -1) >>,
             ops  |-> <<ResolveOp(name)>> \o (IF diskPath # Empty THEN size.ops ELSE <<>>)]
        \* the size query, made when the path is resolved
        query(diskPath, size) ==
            send(diskPath, IF diskPath # Empty THEN diskPath ELSE Unknown,
                 size, diskPath # Empty /\ size.err = "")
        sizeOf(diskPath) == query(diskPath, GetVirtualDiskSize(f, nat, diskPath))
    IN sizeOf(resolveVirtualDiskPath(f, e, name).path)

\* the loop over the device instances from index i on
RECURSIVE collectFrom(_, _, _, _, _)
collectFrom(f, e, nat, devs, i) ==
    IF i > Len(devs) THEN [sent |-> <<>>, ops |-> <<>>]
    ELSE LET both(one, rest) ==
                 [sent |-> one.sent \o rest.sent, ops |-> one.ops \o rest.ops]
         IN both(collectDevice(f, e, nat, devs[i]), collectFrom(f, e, nat, devs, i + 1))

\* a native call of the sequence failed
anyFailed(ops) == \E i \in 1..Len(ops) : ~ops[i].ok

\* a collector that hands a failed size query up as its own error
collectEscalating(f, e, nat, devs, perfFails) ==
    IF perfFails
    THEN [err |-> "failed to collect", sent |-> <<>>, ops |-> <<>>]
    ELSE LET done(all) ==
                 [err  |-> IF anyFailed(all.ops) THEN "failed to get size" ELSE "",
                  sent |-> all.sent, ops |-> all.ops]
         IN done(collectFrom(f, e, nat, devs, 1))

\* collectVirtualStorageDevice: err is "" for nil
collectVirtualStorageDevice(f, e, nat, devs, perfFails) ==
    IF perfFails
    THEN [err |-> "failed to collect", sent |-> <<>>, ops |-> <<>>]
    ELSE LET done(all) == [err |-> "", sent |-> all.sent, ops |-> all.ops]
         IN done(collectFrom(f, e, nat, devs, 1))

(***************************************************************************)
(* instance names                                                          *)
(***************************************************************************)
\* the encoding the performance counters apply to a path: every backslash
\* becomes a hyphen
Encode(p) == ReplaceAll(p, Sep, "-")

\* longest generated instance name
MaxNameLen == 2

\* the tokens generated instance names are built from
NameTokens == {"C", ":", "-", "?", "disk"}

GeneratedNames == UNION {[1..n -> NameTokens] : n \in 0..MaxNameLen}

\* the encodings of everything a disk may hold, with and without the marker
EncodedNames ==
    {Encode(e) : e \in Entries \cup Roots}
    \cup {UncMarker \o Encode(e) : e \in Entries \cup Roots}

\* names that encode no path of the disk, or encode one loosely
OtherNames ==
    { <<"VM01", "_", "disk">>,
      <<"disk">>,
      <<"VM01", "-", "disk", ".vhdx">>,
      UncMarker \o <<"disk">>,
      <<"C", ":", "-", "X", "-", "ClusterStorage", "-", "disk", ".vhdx">>,
      <<"C", ":", "-", "ClusterStorage", "-", "-", "disk", ".vhdx">>,
      <<"C", ":", "-", "ClusterStorage", "-", "Hyper", "-", "V", "-", "disk">>,
      <<"E", ":", "-", "disk", ".vhdx">> }

Names == EncodedNames \cup OtherNames \cup GeneratedNames

(***************************************************************************)
(* state                                                                   *)
(***************************************************************************)
NoCall == [op |-> "none"]

NoHandles == [open |-> 0, opened |-> 0, query |-> 0, close |-> 0]

NoNative == [noOpen |-> {}, noQuery |-> {}]

\* the part of the state a harness does not use
Idle ==
    /\ env = Empty
    /\ native = NoNative
    /\ devices = <<>>
    /\ calls = 0
    /\ ch = <<>>
    /\ handles = NoHandles

(***************************************************************************)
(* SpecDecode: decodeVirtualDiskPath applied to every name on every disk   *)
(***************************************************************************)
InitDecode ==
    /\ fs \in FsStates
    /\ arg \in Names
    /\ out = NoCall
    /\ Idle

DecodeCall ==
    /\ out = NoCall
    /\ LET returns(d) == out' = [op |-> "decode", path |-> d.path, probes |-> d.probes]
       IN returns(decodeVirtualDiskPath(fs, arg))
    /\ UNCHANGED <<fs, env, native, devices, arg, calls, ch, handles>>

NextDecode == DecodeCall

SpecDecode == InitDecode /\ [][NextDecode]_vars

(***************************************************************************)
(* SpecResolve: resolveVirtualDiskPath called repeatedly on one name       *)
(***************************************************************************)
\* calls made in a row by a harness
MaxCalls == 2

\* values of HYPERV_VHD_PATHS: unset, one directory, two directories, a
\* list with an empty element, a drive root
EnvValues ==
    { Empty,
      dVMs,
      dVM \o <<";">> \o dVMs,
      dVMs \o <<";">>,
      CRoot }

\* the disks the resolver is run on: those without the entries only the
\* decoder's segment merging tells apart
ResolveFs == {f \in FsStates : f \cap {dCSV, fCSV, dHV, fHV, dHyper, fGuid} = {}}

\* the names the resolver is run on: encoded paths that decode, encoded
\* paths that need a merge, plain labels, "VM_Disk" labels, file names
ResolveNames ==
    { Encode(fVM), UncMarker \o Encode(fVM), Encode(fCS),
      Encode(fVMs), Encode(fCwd),
      <<"disk">>, <<"VM01", "_", "disk">>, <<"VM01">>,
      <<"VM01", "-", "disk", ".vhdx">>,
      UncMarker \o <<"disk">>,
      <<"C", ":", "-", "X", "-", "ClusterStorage", "-", "disk", ".vhdx">>,
      <<"E", ":", "-", "disk", ".vhdx">> }

InitResolve ==
    /\ fs \in ResolveFs
    /\ env \in EnvValues
    /\ arg \in ResolveNames
    /\ out = NoCall
    /\ native = NoNative
    /\ devices = <<>>
    /\ calls = 0
    /\ ch = <<>>
    /\ handles = NoHandles

ResolveCall ==
    /\ calls < MaxCalls
    /\ LET returns(r) ==
               out' = [op |-> "resolve", path |-> r.path, probes |-> r.probes, how |-> r.how]
       IN returns(resolveVirtualDiskPath(fs, env, arg))
    /\ calls' = calls + 1
    /\ UNCHANGED <<fs, env, native, devices, arg, ch, handles>>

NextResolve == ResolveCall

SpecResolve == InitResolve /\ [][NextResolve]_vars

(***************************************************************************)
(* SpecProbe: GetVirtualDiskSize called on a sequence of paths             *)
(***************************************************************************)
fIso     == dVM \o <<Sep, "setup", ".iso">>
fNul     == dVM \o <<Sep, "disk", "NUL", ".vhdx">>
fSet     == dVM \o <<Sep, "shared", ".vhdset">>
fBak     == dVM \o <<Sep, "disk", ".vhdx", ".bak">>
fDotDir  == dCS \o <<".vhdx", Sep, "disk">>

\* the paths the probe is called with: image files, a hyphenated file with
\* an extension the probe does not know, a missing file, a directory, a
\* path that cannot be converted to UTF-16, a set file, a file with two
\* extensions, a file without one in a directory with one
ProbePaths == {fVM, fCS, fVMs, fGuid, fIso, dVM, fNul, fSet, fBak, fDotDir}

\* the disks the probe runs on
ProbeFs == {f \in FsStates : {dCS, dVM, dVMs} \subseteq f /\ f \cap {dCSV, dHV, dHyper, fCwd} = {}}

\* what the native layer refuses
NativeStates == [noOpen : SUBSET {fVM}, noQuery : SUBSET {fVM, fCS}]

InitProbe ==
    /\ fs \in ProbeFs
    /\ native \in NativeStates
    /\ env = Empty
    /\ devices = <<>>
    /\ arg = Empty
    /\ out = NoCall
    /\ calls = 0
    /\ ch = <<>>
    /\ handles = NoHandles

ProbeCall(path) ==
    /\ calls < MaxCalls
    /\ LET returns(r) ==
               /\ out' = [op |-> "size", virtualSize |-> r.virtualSize,
                          physicalSize |-> r.physicalSize, err |-> r.err, ops |-> r.ops]
               /\ handles' = handlesAfter(handles, r.ops)
       IN returns(GetVirtualDiskSize(fs, native, path))
    /\ arg' = path
    /\ calls' = calls + 1
    /\ UNCHANGED <<fs, env, native, devices, ch>>

NextProbe == \E path \in ProbePaths : ProbeCall(path)

SpecProbe == InitProbe /\ [][NextProbe]_vars

(***************************************************************************)
(* SpecCollect: collection cycles over the reported device instances       *)
(***************************************************************************)
\* most device instances reported in one cycle
MaxDevices == 2

\* the instance names reported: a label found by the search, an encoded
\* path, a label nothing matches
DeviceNames == {<<"disk">>, Encode(fVM), <<"VM01">>}

DeviceLists == UNION {[1..n -> DeviceNames] : n \in 0..MaxDevices}

\* the disks the collector runs on
CollectFs == {f \in FsStates : f \subseteq {dCS, dVM, fVM, fCS}}

InitCollect ==
    /\ fs \in CollectFs
    /\ native \in NativeStates
    /\ devices \in DeviceLists
    /\ env = Empty
    /\ arg = Empty
    /\ out = NoCall
    /\ calls = 0
    /\ ch = <<>>
    /\ handles = NoHandles

\* one collection cycle; perfFails: the performance counter collection fails
Collect(perfFails) ==
    /\ calls < MaxCalls
    /\ LET returns(r) ==
               /\ out' = [op |-> "collect", err |-> r.err, perfFailed |-> perfFails,
                          ops |-> r.ops, prev |-> ch]
               /\ ch' = r.sent
               /\ handles' = handlesAfter(handles, r.ops)
       IN returns(collectVirtualStorageDevice(fs, env, native, devices, perfFails))
    /\ calls' = calls + 1
    /\ UNCHANGED <<fs, env, native, devices, arg>>

NextCollect == \E perfFails \in BOOLEAN : Collect(perfFails)

SpecCollect == InitCollect /\ [][NextCollect]_vars

(***************************************************************************)
(* SpecCycles: collection cycles with the disk and the native layer        *)
(* changing between them                                                   *)
(***************************************************************************)
\* the image files that come and go between cycles
CycleFiles == {fVM, fCS}

\* the device lists of the cycles: an encoded path and a label, and the
\* same label reported twice
CycleDevices == { << Encode(fVM), <<"disk">> >>, << <<"disk">>, <<"disk">> >> }

InitCycles ==
    /\ fs \in {{dCS, dVM} \cup files : files \in SUBSET CycleFiles}
    /\ native \in [noOpen : {{}}, noQuery : SUBSET CycleFiles]
    /\ devices \in CycleDevices
    /\ env = Empty
    /\ arg = Empty
    /\ out = NoCall
    /\ calls = 0
    /\ ch = <<>>
    /\ handles = NoHandles

\* between two cycles an image file appears on the disk or disappears
FileChange(file) ==
    /\ out.op = "collect"
    /\ fs' = IF file \in fs THEN fs \ {file} ELSE fs \cup {file}
    /\ out' = [op |-> "changed"]
    /\ UNCHANGED <<env, native, devices, arg, calls, ch, handles>>

\* between two cycles the native layer starts or stops refusing the size
\* query of an image
NativeChange(file) ==
    /\ out.op = "collect"
    /\ native' = [native EXCEPT !.noQuery = IF file \in native.noQuery
                                             THEN native.noQuery \ {file}
                                             ELSE native.noQuery \cup {file}]
    /\ out' = [op |-> "changed"]
    /\ UNCHANGED <<fs, env, devices, arg, calls, ch, handles>>

NextCycles ==
    \/ \E perfFails \in BOOLEAN : Collect(perfFails)
    \/ \E file \in CycleFiles : FileChange(file)
    \/ \E file \in CycleFiles : NativeChange(file)

SpecCycles == InitCycles /\ [][NextCycles]_vars

(***************************************************************************)
(* SpecTry: the loop of tryPathCombinations, one iteration per step        *)
(***************************************************************************)
\* what decodeVirtualDiskPath hands to tryPathCombinations for a name: the
\* drive root and the hyphen-separated segments after "X:-"
encodedRoot(instanceName) == <<TrimPrefix(instanceName, UncMarker)[1], ":", Sep>>

encodedRest(instanceName) ==
    SubSeq(TrimPrefix(instanceName, UncMarker), 4, Len(TrimPrefix(instanceName, UncMarker)))

encodedParts(instanceName) == Split(encodedRest(instanceName), "-")

\* the name gets as far as tryPathCombinations on disk f: it carries a
\* marker and a drive, and the simple path does not exist
reachesTry(f, instanceName) ==
    /\ hasMarker(instanceName)
    /\ Len(TrimPrefix(instanceName, UncMarker)) >= 3
    /\ TrimPrefix(instanceName, UncMarker)[2] = ":"
    /\ TrimPrefix(instanceName, UncMarker)[3] = "-"
    /\ ~fileExistsIn(f, encodedRoot(instanceName)
                          \o ReplaceAll(encodedRest(instanceName), "-", Sep))

\* the names the loop is run on
TryNames == EncodedNames \cup OtherNames

\* an index that stays on the segment that was merged
afterMergeRetry(i) == i

\* an index that does not skip the merged segment
afterMergeNoSkip(i) == i + 1

\* the index of the next iteration after a merge at index i: the merged
\* segment is skipped, then the loop moves on
afterMerge(i) == i + 2

\* the loop's variables: the index (1-based), basePath, currentPath, the
\* probes made so far, and the value returned once the function has returned
Loop(i, basePath, currentPath, probes, done, path) ==
    [op |-> "try", i |-> i, basePath |-> basePath, currentPath |-> currentPath,
     probes |-> probes, done |-> done, path |-> path]

InitTry ==
    /\ fs \in FsStates
    /\ arg \in TryNames
    /\ reachesTry(fs, arg)
    /\ out = Loop(1, encodedRoot(arg), Empty, 0, FALSE, Empty)
    /\ Idle

\* the loop has run off the end of parts: return ""
TryReturnEmpty ==
    /\ out.op = "try" /\ ~out.done
    /\ out.i > Len(encodedParts(arg))
    /\ out' = [out EXCEPT !.done = TRUE, !.path = Empty]
    /\ UNCHANGED <<fs, env, native, devices, arg, calls, ch, handles>>

\* one iteration of the loop
TryStep ==
    /\ out.op = "try" /\ ~out.done
    /\ out.i <= Len(encodedParts(arg))
    /\ LET iterate(parts, i, testPath, finalPath) ==
               LET last     == i = Len(parts) /\ (ContainsVhd(parts[i]) \/ ContainsVmgs(parts[i]))
                   tryFinal == last /\ out.currentPath # Empty
                   p1       == out.probes + (IF tryFinal THEN 1 ELSE 0) + (IF last THEN 1 ELSE 0)
                   merge(mergePath) ==
                       IF isDirIn(fs, mergePath)
                       THEN Loop(afterMerge(i), mergePath, mergePath, p1 + 2, FALSE, Empty)
                       ELSE Loop(i + 1, out.basePath, out.currentPath, p1 + 2, FALSE, Empty)
               IN IF parts[i] = Empty
                  THEN Loop(i + 1, out.basePath, out.currentPath, out.probes, FALSE, Empty)
                  ELSE IF tryFinal /\ fileExistsIn(fs, finalPath)
                  THEN Loop(i, out.basePath, out.currentPath, out.probes + 1, TRUE, finalPath)
                  ELSE IF last /\ fileExistsIn(fs, testPath)
                  THEN Loop(i, out.basePath, out.currentPath, p1, TRUE, testPath)
                  ELSE IF isDirIn(fs, testPath)
                  THEN Loop(i + 1, testPath, testPath, p1 + 1, FALSE, Empty)
                  ELSE IF i < Len(parts)
                  THEN merge(Join(out.basePath, parts[i] \o <<"-">> \o parts[i + 1]))
                  ELSE Loop(i + 1, out.basePath, out.currentPath, p1 + 1, FALSE, Empty)
       IN \E parts \in {encodedParts(arg)} :
             \E testPath \in {Join(out.basePath, parts[out.i])},
                finalPath \in {Join(out.currentPath, parts[out.i])} :
                 out' = iterate(parts, out.i, testPath, finalPath)
    /\ UNCHANGED <<fs, env, native, devices, arg, calls, ch, handles>>

NextTry == TryStep \/ TryReturnEmpty

SpecTry == InitTry /\ [][NextTry]_vars

\* the loop taken step by step returns what tryPathCombinations returns
TryAgrees ==
    (out.op = "try" /\ out.done) =>
        Decoded(out.path, out.probes) = tryPathCombinations(fs, encodedRoot(arg), encodedParts(arg))

(***************************************************************************)
(* SpecBounded: the loop of tryPathCombinations run to its end, then the   *)
(* resolver called on the same name                                        *)
(***************************************************************************)
\* the override values of this harness
BoundedEnv == {Empty, dVMs}

\* the disks of this harness: those of the resolver, and those on which
\* the loop merges two segments
BoundedFs == ResolveFs \cup {f \in FsStates : dHV \in f /\ f \subseteq {dCS, dHV, fHV, fCS}}

\* the names of this harness
BoundedNames == ResolveNames \cup {Encode(fHV)}

InitBounded ==
    /\ fs \in BoundedFs
    /\ env \in BoundedEnv
    /\ arg \in BoundedNames
    /\ out = IF reachesTry(fs, arg) THEN Loop(1, encodedRoot(arg), Empty, 0, FALSE, Empty)
             ELSE NoCall
    /\ native = NoNative
    /\ devices = <<>>
    /\ calls = 0
    /\ ch = <<>>
    /\ handles = NoHandles

\* the resolver is called when no loop is under way
ResolveWhenIdle ==
    /\ out.op = "try" => out.done
    /\ ResolveCall

NextBounded == TryStep \/ TryReturnEmpty \/ ResolveWhenIdle

\* a loop that has not returned takes its next step
SpecBounded ==
    /\ InitBounded
    /\ [][NextBounded]_vars
    /\ WF_vars(TryStep \/ TryReturnEmpty)

(***************************************************************************)
(* claims about decodeVirtualDiskPath, checked under SpecDecode            *)
(***************************************************************************)
decoded == out.op = "decode"

\* C4: a name that neither contains ":-" nor begins with "--?-" decodes to
\* the empty path, whatever the disk holds, and no filesystem probe is made
C4_UnmarkedDecodesEmpty ==
    (decoded /\ ~hasMarker(arg)) => (out.path = Empty /\ out.probes = 0)

\* C4 witness: the name "disk.vhdx" is decoded while a file of that very
\* name exists in the working directory
C4_Witness ==
    decoded /\ arg = <<"disk", ".vhdx">> /\ fCwd \in fs /\ out.path = Empty

\* the files on disk with a hyphen inside a directory name or the file name
HyphenatedFiles(f) == {p \in f \cap FileEntries : Contains(p, <<"-">>)}

\* C5: the encoding of an existing path with hyphens inside a component
\* decodes to exactly that path
C5_HyphenatedPathRecovered ==
    \A p \in HyphenatedFiles(fs) :
        (decoded /\ arg \in {Encode(p), UncMarker \o Encode(p)}) => out.path = p

\* the existing drive-letter paths with no hyphen in any component
PlainPaths(f) == {p \in f \cup Roots : IsAbs(p) /\ ~Contains(p, <<"-">>)}

\* C6: round trip: the encoding of an existing hyphen-free drive-letter path
\* decodes to that path, with and without the "--?-" prefix
C6_RoundTrip ==
    \A p \in PlainPaths(fs) :
        (decoded /\ arg \in {Encode(p), UncMarker \o Encode(p)}) => out.path = p

\* C6 witness: a prefixed encoding of an existing file three levels deep
\* has been decoded to the file's path
C6_Witness ==
    decoded /\ arg = UncMarker \o Encode(fVM) /\ fVM \in fs /\ out.path = fVM

(***************************************************************************)
(* claims about resolveVirtualDiskPath, checked under SpecResolve          *)
(***************************************************************************)
resolved == out.op = "resolve"

MatchesUnder(f, d, names) ==
    LET root == GlobRoot(d) IN
    {p \in f : /\ \E i \in 1..Len(names) : MatchName(names[i], EntryBase[p])
               /\ root \in {EntryDir[p], EntryDir2[p], EntryDir3[p]}}

MatchesUnderAny(f, dirs, names) ==
    UNION {MatchesUnder(f, dirs[i], names) : i \in 1..Len(dirs)}

OverrideMatches == MatchesUnderAny(fs, customPathsList(env), possibleNames(arg))
BuiltinMatches  == MatchesUnderAny(fs, commonPaths, possibleNames(arg))

\* C8: when the heuristic search runs and an override directory holds a
\* match, the result is a match of an override directory, even if a built-in
\* directory holds one too; the built-in directories are still searched
\* when no override directory holds a match
C8_OverrideFirst ==
    (resolved /\ out.how # "decoded") =>
        IF OverrideMatches # {} THEN out.path \in OverrideMatches
        ELSE BuiltinMatches # {} => out.path \in BuiltinMatches

\* C8 witness: D:\VMs is the override and holds disk.vhd, the built-in
\* C:\ClusterStorage holds disk.vhdx, and "disk" resolved to the former
C8_Witness ==
    /\ resolved /\ env = dVMs /\ arg = <<"disk">>
    /\ fVMs \in fs /\ fCS \in fs
    /\ out.how = "direct" /\ out.path = fVMs

\* C10 as stated: the result is empty or an absolute path that exists
C10_AbsoluteExisting ==
    resolved => (out.path = Empty \/ (IsAbs(out.path) /\ fileExistsIn(fs, out.path)))

\* every directory of the override list is an absolute path
OverrideAbsolute(e) ==
    \A i \in 1..Len(customPathsList(e)) : IsAbs(customPathsList(e)[i])

\* C10 amended: the result is empty or a path that exists on the disk, and
\* it is absolute whenever every override directory is absolute
C10_ExistingAbsoluteIfOverrideIs ==
    resolved => \/ out.path = Empty
                \/ /\ fileExistsIn(fs, out.path)
                   /\ OverrideAbsolute(env) => IsAbs(out.path)

\* C10 witness: the search returned an existing absolute path found two
\* levels below the override directory C:\
C10_Witness ==
    resolved /\ env = CRoot /\ out.how = "two" /\ out.path = fVM /\ fVM \in fs

(***************************************************************************)
(* claims about GetVirtualDiskSize, checked under SpecProbe                *)
(***************************************************************************)
\* C3 as stated: after any sequence of calls the native layer has seen as
\* many open calls as close calls
C3_OpenCallsEqualCloseCalls == handles.open = handles.close

\* C3 amended: after any sequence of calls the native layer has seen as many
\* close calls as successful open calls, so no handle is open when a call
\* returns; a failed open is an open call that no close call follows
C3_NoHandleLeft ==
    /\ handles.opened = handles.close
    /\ handles.close <= handles.open

\* C3 witness: two calls have been made, one failed at open and one failed
\* at the size query, and the one handle that was opened has been closed
C3_Witness ==
    /\ out.op = "size" /\ out.err = "query"
    /\ handles = [open |-> 2, opened |-> 1, query |-> 1, close |-> 1]

(***************************************************************************)
(* claims about collectVirtualStorageDevice, checked under SpecCollect     *)
(***************************************************************************)
collected == out.op = "collect"

\* the size observations of the last cycle, in the order they were sent
SizeObs == SelectSeq(ch, LAMBDA m : m.metric \in {"size_bytes", "physical_size_bytes"})

\* what resolution and the size query give for the i-th device
DevicePath(i) == resolveVirtualDiskPath(fs, env, devices[i]).path
DeviceSize(i) == GetVirtualDiskSize(fs, native, DevicePath(i))

\* C1: a cycle whose performance counter collection succeeds sends, for
\* every device instance of the list, exactly two size observations, one
\* virtual and one physical, labelled with that device's name
C1_TwoSizesPerDevice ==
    (collected /\ ~out.perfFailed) =>
        /\ Len(SizeObs) = 2 * Len(devices)
        /\ \A i \in 1..Len(devices) :
              /\ SizeObs[2 * i - 1].metric = "size_bytes"
              /\ SizeObs[2 * i - 1].device = devices[i]
              /\ SizeObs[2 * i].metric = "physical_size_bytes"
              /\ SizeObs[2 * i].device = devices[i]

\* C1 witness: the first device is unresolved, the second resolves to an
\* image whose size query fails, and four size observations were sent
C1_Witness ==
    /\ collected /\ ~out.perfFailed
    /\ devices = << <<"VM01">>, Encode(fVM) >>
    /\ fVM \in fs /\ fVM \in native.noQuery
    /\ Len(SizeObs) = 4

C9_ErrorOnlyFromPerfData ==
    collected =>
        /\ out.err # "" <=> out.perfFailed
        /\ out.perfFailed => ch = <<>>

\* C9 witness: a cycle over an unresolved device and a device whose image
\* cannot be opened returned no error
C9_Witness ==
    /\ collected /\ out.err = ""
    /\ devices = << <<"VM01">>, Encode(fVM) >>
    /\ fVM \in fs /\ fVM \in native.noOpen
    /\ SizeObs[3].value = -1

\* C9 witness of the failing cycle: the collection failed with two devices
\* reported and nothing was sent
C9_WitnessFailed ==
    collected /\ out.perfFailed /\ Len(devices) = 2 /\ ch = <<>>

\* C11: -1 is sent only for a failure: a size observation is -1 only when the
\* device's path was unresolved or its size query failed; after a successful
\* query both observations are the queried sizes, which are not negative (a
\* size of zero is sent as 0); and the virtual size is -1 exactly when the
\* physical size is
C11_SentinelOnlyOnFailure ==
    (collected /\ ~out.perfFailed /\ Len(SizeObs) = 2 * Len(devices)) =>
        \A i \in 1..Len(devices) :
            LET v == SizeObs[2 * i - 1]
                p == SizeObs[2 * i]
                failed == DevicePath(i) = Empty \/ DeviceSize(i).err # ""
            IN /\ (v.value = -1 \/ p.value = -1) => failed
               /\ ~failed => /\ v.value = DeviceSize(i).virtualSize /\ v.value >= 0
                              /\ p.value = DeviceSize(i).physicalSize /\ p.value >= 0
               /\ v.value = -1 <=> p.value = -1

\* C11 witness: one cycle sent 0 and 0 for an image whose queried sizes are
\* zero and -1 and -1 for an image whose size query failed
C11_Witness ==
    /\ collected /\ ~out.perfFailed
    /\ devices = << <<"disk">>, Encode(fVM) >>
    /\ {fVM, fCS} \subseteq fs /\ fCS \notin native.noQuery /\ fVM \in native.noQuery
    /\ SizeObs[1].value = 0 /\ SizeObs[2].value = 0
    /\ SizeObs[3].value = -1 /\ SizeObs[4].value = -1

\* the candidate names as the search order lists them: the raw name if it
\* holds an image extension, the raw name with each extension, and, for a
\* name with an underscore, what follows the last underscore with each
\* extension
C12_Candidates(name) ==
    LET underscores == {i \in 1..Len(name) : name[i] = "_"}
        lastUnderscore == CHOOSE i \in underscores : \A j \in underscores : j <= i
        suffix == SubSeq(name, lastUnderscore + 1, Len(name))
    IN (IF \E i \in 1..Len(name) : name[i] \in {".vhd", ".vhdx", ".vhdset"}
        THEN <<name>> ELSE <<>>)
       \o << name \o <<".vhdx">>, name \o <<".vhd">>, name \o <<".vhdset">> >>
       \o (IF underscores # {}
            THEN << suffix \o <<".vhdx">>, suffix \o <<".vhd">>, suffix \o <<".vhdset">> >>
            ELSE <<>>)

\* the entries of the disk that one probe of a (base directory, name) pair
\* can return: the direct join, a match one directory below the base, a
\* match two directories below it
C12_Matches(f, basePath, name, how) ==
    IF how = "direct"
    THEN IF fileExistsIn(f, Join(basePath, name)) THEN {Join(basePath, name)} ELSE {}
    ELSE IF how = "one"
    THEN {p \in f : EntryDir2[p] = GlobRoot(basePath) /\ MatchName(name, EntryBase[p])}
    ELSE IF how = "two"
    THEN {p \in f : EntryDir3[p] = GlobRoot(basePath) /\ MatchName(name, EntryBase[p])}
    ELSE {}

\* the first probe of a pair that has a match, "none" if none has
C12_Level(f, basePath, name) ==
    IF C12_Matches(f, basePath, name, "direct") # {} THEN "direct"
    ELSE IF C12_Matches(f, basePath, name, "one") # {} THEN "one"
    ELSE IF C12_Matches(f, basePath, name, "two") # {} THEN "two"
    ELSE "none"

\* C12: when the heuristic search is reached, it returns a match of the
\* first (base directory, candidate name) pair that has one, base directories
\* outermost and in list order, candidate names in their listed order, and
\* within the pair the direct join before the one-level wildcard before the
\* two-level wildcard; it returns empty only if no pair has a match
C12_FirstMatchInOrder ==
    (resolved /\ out.how # "decoded") =>
        LET bases == customPathsList(env) \o commonPaths
            names == C12_Candidates(arg)
            nn    == Len(names)
            level(k) == C12_Level(fs, bases[((k - 1) \div nn) + 1], names[((k - 1) % nn) + 1])
            hits  == {k \in 1..(Len(bases) * nn) : level(k) # "none"}
        IN IF hits = {} THEN out.path = Empty /\ out.how = "none"
           ELSE \E k \in hits :
                   /\ \A j \in hits : k <= j
                   /\ out.how = level(k)
                   /\ out.path \in C12_Matches(fs, bases[((k - 1) \div nn) + 1],
                                                names[((k - 1) % nn) + 1], out.how)

\* C12 witness: for "VM01_disk" the override directory D:\VMs holds both
\* disk.vhd and disk.vhdx and the built-in C:\ClusterStorage holds
\* disk.vhdx; the search returned D:\VMs\disk.vhdx, the fourth candidate of
\* the first base directory
C12_Witness ==
    /\ resolved /\ env = dVMs /\ arg = <<"VM01", "_", "disk">>
    /\ {fVMs, fVMsX, fCS} \subseteq fs
    /\ out.how = "direct" /\ out.path = fVMsX /\ out.probes = 10

(***************************************************************************)
(* claims about tryPathCombinations, checked under SpecTry                 *)
(***************************************************************************)
\* C13: at a segment that is not the last, with base directory B: if B
\* joined with the segment is an existing directory, that becomes the
\* accumulated path and one segment is consumed, whether or not a merge would
\* also name a directory; otherwise, if B joined with the segment, a hyphen
\* and the next segment is an existing directory, that becomes the
\* accumulated path and two segments are consumed. The accumulated path is
\* empty or an existing directory, and then it is the base directory
C13_PlainThenMerge ==
    /\ [](out.op = "try" /\ out.currentPath # Empty =>
             isDirIn(fs, out.currentPath) /\ out.basePath = out.currentPath)
    /\ [][ (out.op = "try" /\ ~out.done /\ out.i < Len(encodedParts(arg))) =>
             LET part   == encodedParts(arg)[out.i]
                 next   == encodedParts(arg)[out.i + 1]
                 plain  == Join(out.basePath, part)
                 merged == Join(out.basePath, part \o <<"-">> \o next)
             IN IF isDirIn(fs, plain)
                THEN /\ out'.basePath = plain
                     /\ part # Empty => out'.currentPath = plain
                     /\ out'.i = out.i + 1
                ELSE isDirIn(fs, merged) =>
                     /\ out'.basePath = merged
                     /\ out'.currentPath = merged
                     /\ out'.i = out.i + 2 ]_vars

\* C13 witness, merge: C:\ClusterStorage\Hyper does not exist, the segments
\* "Hyper" and "V" were taken together for C:\ClusterStorage\Hyper-V, and the
\* loop stands at the fourth segment
C13_Witness ==
    /\ out.op = "try" /\ arg = Encode(fHV)
    /\ dHyper \notin fs
    /\ out.currentPath = dHV /\ out.i = 4

\* C13 witness, plain join first: C:\ClusterStorage\Hyper and
\* C:\ClusterStorage\Hyper-V both exist and the loop took the former
C13_WitnessPlainFirst ==
    /\ out.op = "try" /\ arg = Encode(fHV)
    /\ {dHyper, dHV} \subseteq fs
    /\ out.currentPath = dHyper /\ out.i = 3

(***************************************************************************)
(* further claims about decodeVirtualDiskPath, checked under SpecDecode    *)
(***************************************************************************)
\* the paths a name is an encoding of: the drive root followed by the rest
\* of the name with any of its hyphens read as a separator
C14_Decodings(name) ==
    LET stripped == TrimPrefix(name, UncMarker)
        rest     == SubSeq(stripped, 4, Len(stripped))
        hyphens  == {i \in 1..Len(rest) : rest[i] = "-"}
    IN IF Len(stripped) < 3 \/ stripped[2] # ":" \/ stripped[3] # "-" THEN {}
       ELSE { <<stripped[1], ":", Sep>>
                 \o [i \in 1..Len(rest) |-> IF i \in S THEN Sep ELSE rest[i]]
              : S \in SUBSET hyphens }

\* C14: every non-empty path the decoder returns re-encodes to the name
\* without its "--?-" prefix, and the decoder returns empty whenever no
\* decoding of the name exists on disk
C14_NeverGuesses ==
    decoded =>
        /\ out.path # Empty => Encode(out.path) = TrimPrefix(arg, UncMarker)
        /\ (\A p \in C14_Decodings(arg) : ~fileExistsIn(fs, p)) => out.path = Empty

(***************************************************************************)
(* further claims about GetVirtualDiskSize, checked under SpecProbe        *)
(***************************************************************************)
\* C15: within a call the native operations come in the order open, query,
\* close: a query is made only straight after a successful open; after a
\* successful open there is exactly one close, and it is the last operation,
\* after the query, whether the query succeeded or failed; a failed open is
\* followed by no query and no close; and a failing call returns the sizes
\* 0 and 0 with an error
C15_OpenQueryClose ==
    out.op = "size" =>
        LET ops == out.ops
            n   == Len(ops)
        IN /\ \A i \in 1..n : ops[i].call = "open" => i = 1
           /\ \A i \in 1..n : ops[i].call = "query" =>
                  i = 2 /\ ops[1].call = "open" /\ ops[1].ok
           /\ (n > 0 /\ ops[1].call = "open" /\ ops[1].ok) =>
                  /\ n = 3 /\ ops[2].call = "query" /\ ops[3].call = "close"
           /\ (n > 0 /\ ops[1].call = "open" /\ ~ops[1].ok) => n = 1
           /\ \A i \in 1..n : ops[i].call = "close" => i = 3
           /\ out.err # "" <=> (n < 3 \/ ~ops[2].ok)
           /\ out.err # "" => out.virtualSize = 0 /\ out.physicalSize = 0

\* C15 witness: a call on an image that opens and whose size query fails
\* made the calls open, query, close and returned 0, 0 and an error
C15_Witness ==
    /\ out.op = "size" /\ arg = fVM /\ out.err = "query"
    /\ Len(out.ops) = 3
    /\ out.ops[1].call = "open" /\ out.ops[2].call = "query" /\ ~out.ops[2].ok
    /\ out.ops[3].call = "close"
    /\ out.virtualSize = 0 /\ out.physicalSize = 0

\* the extension of the path a call was made with: what follows the last
\* separator, from its last dot on
C18_FinalExtension ==
    LET seps  == {i \in 1..Len(arg) : arg[i] = Sep}
        start == IF seps = {} THEN 1 ELSE 1 + CHOOSE i \in seps : \A j \in seps : j <= i
        dots  == {i \in start..Len(arg) : arg[i] \in DotAtoms}
    IN IF dots = {} THEN Empty
       ELSE SubSeq(arg, CHOOSE i \in dots : \A j \in dots : j <= i, Len(arg))

\* C18: every call with a path that converts to UTF-16 begins with a native
\* open, and the storage type of that open is VHD for the final extension
\* ".vhd", VHDX for ".vhdx", VHDSET for ".vhdset", ISO for ".iso" and
\* UNKNOWN for every other one and for none; no path is turned away before
\* the open for its extension
C18_TypeByFinalExtension ==
    (out.op = "size" /\ ~hasNul(arg)) =>
        /\ Len(out.ops) >= 1
        /\ out.ops[1].call = "open"
        /\ out.ops[1].type =
               CASE C18_FinalExtension = <<".vhd">>    -> "VHD"
                 [] C18_FinalExtension = <<".vhdx">>   -> "VHDX"
                 [] C18_FinalExtension = <<".vhdset">> -> "VHDSET"
                 [] C18_FinalExtension = <<".iso">>    -> "ISO"
                 [] OTHER                              -> "UNKNOWN"

\* C18 witness: a call on an existing file with the extension ".vmgs"
\* opened it with the type UNKNOWN and went on to query its size
C18_Witness ==
    /\ out.op = "size" /\ arg = fGuid /\ fGuid \in fs
    /\ out.ops[1].call = "open" /\ out.ops[1].type = "UNKNOWN" /\ out.ops[1].ok
    /\ Len(out.ops) = 3 /\ out.err = ""

(***************************************************************************)
(* claims about successive cycles, checked under SpecCycles                *)
(***************************************************************************)
\* the calls of resolveVirtualDiskPath in the trace of the last cycle
C16_Resolves == SelectSeq(out.ops, LAMBDA o : o.call = "resolve")

\* C16: in a cycle every device of the list is resolved exactly once, in
\* list order, and at most one native open is made for it; and what is sent
\* for a device is given by the disk, the override and the native layer as
\* they are in that cycle, whatever earlier cycles saw: -1 and "unknown" if
\* the path does not resolve now, -1 if the size query fails now, else the
\* sizes queried now
C16_FreshEveryCycle ==
    (collected /\ ~out.perfFailed) =>
        /\ Len(C16_Resolves) = Len(devices)
        /\ \A i \in 1..Len(devices) : C16_Resolves[i].device = devices[i]
        /\ \A a, b \in 1..Len(out.ops) :
               (a < b /\ out.ops[a].call = "open" /\ out.ops[b].call = "open") =>
                   \E k \in (a + 1)..(b - 1) : out.ops[k].call = "resolve"
        /\ Len(SizeObs) = 2 * Len(devices)
        /\ \A i \in 1..Len(devices) :
               LET v == SizeObs[2 * i - 1]
                   p == SizeObs[2 * i]
               IN IF DevicePath(i) = Empty
                  THEN v.value = -1 /\ p.value = -1 /\ v.path = Unknown
                  ELSE IF DeviceSize(i).err # ""
                  THEN v.value = -1 /\ p.value = -1
                  ELSE /\ v.value = DeviceSize(i).virtualSize
                       /\ p.value = DeviceSize(i).physicalSize

\* the size observations of the cycle before the last
C16_PrevSizeObs ==
    SelectSeq(out.prev, LAMBDA m : m.metric \in {"size_bytes", "physical_size_bytes"})

\* C16 witness, healing: the first cycle sent -1 for the device with the
\* encoded path, then its file appeared, and the second cycle sent its sizes
C16_Witness ==
    /\ collected /\ ~out.perfFailed /\ calls = 2
    /\ devices[1] = Encode(fVM)
    /\ Len(C16_PrevSizeObs) = 4 /\ C16_PrevSizeObs[1].value = -1
    /\ SizeObs[1].value = 64 /\ SizeObs[1].path = fVM

\* C16 witness, the reverse: the first cycle sent the sizes of the device,
\* then its file disappeared, and the second cycle sent -1 and "unknown"
C16_WitnessReverse ==
    /\ collected /\ ~out.perfFailed /\ calls = 2
    /\ devices[1] = Encode(fVM)
    /\ Len(C16_PrevSizeObs) = 4 /\ C16_PrevSizeObs[1].value = 64
    /\ SizeObs[1].value = -1 /\ SizeObs[1].path = Unknown

(***************************************************************************)
(* claims about termination, checked under SpecBounded                     *)
(***************************************************************************)
\* the most probes a call of the resolver can make: one for the simple path,
\* three for every hyphen-separated segment of the name, one for the decoded
\* path, and three for every pair of a base directory and a candidate name
C17_MaxProbes ==
    2 + 3 * Len(Split(arg, "-"))
      + 3 * Len(customPathsList(env) \o commonPaths) * Len(C12_Candidates(arg))

\* C17: the loop of tryPathCombinations, once begun, returns; every iteration of it
\* consumes at least one segment and at most two, never goes back to an
\* earlier segment or to a shorter base directory, and makes at most three
\* probes; the resolver returns, having made no more probes than its bound,
\* which allows three for each (base directory, candidate name) pair
C17_BoundedProbes ==
    /\ [][ (out.op = "try" /\ out'.op = "try") =>
              /\ out'.i >= out.i /\ out'.i <= out.i + 2
              /\ out'.done \/ out'.i > out.i
              /\ HasPrefix(out'.basePath, out.basePath)
              /\ out'.probes <= out.probes + 3 ]_vars
    /\ [](out.op = "try" => out.probes <= 3 * Len(encodedParts(arg)))
    /\ [](resolved => out.probes <= C17_MaxProbes)
    /\ (out.op = "try" /\ ~out.done) ~> (out.op = "try" /\ out.done)

\* C17 witness: the resolver returned empty for a name of five segments
\* after the loop and the whole search had run: one probe for the simple
\* path, seven in the loop, and three for each of the 36 pairs
C17_Witness ==
    /\ resolved /\ out.path = Empty
    /\ arg = Encode(fHV) /\ env = dVMs /\ dHV \in fs /\ fHV \notin fs
    /\ out.probes > 3 * 36

====
